---- MODULE Spec2Model ----
(***************************************************************************)
(* TaskManager backend: the task REST handlers (requireAuth -> validate -> *)
(* controller -> service -> Task collection) and the credential and        *)
(* password-reset service (User collection).                               *)
(*                                                                         *)
(* JavaScript objects are functions whose DOMAIN is the set of keys that   *)
(* are present; an absent optional field is an absent key.                 *)
(* Time is a discrete clock `now`; one tick is one hour.                    *)
(***************************************************************************)
EXTENDS Integers, Sequences, FiniteSets, TLC

VARIABLES
  tasks,     \* Task collection: task number |-> stored document
  nextId,    \* number of the next ObjectId the Task collection hands out
  creator,   \* history: task number |-> id of the caller whose request created it
  users,     \* User collection: user id |-> stored document
  inflight,  \* auth-service calls that await their second store operation
  nextToken, \* number of the next value crypto.randomBytes returns
  issued,    \* history: reset token |-> [user, expires] once its hash was saved
  latest,    \* history: user id |-> the reset token whose hash was saved last
  consumed,  \* history: reset token |-> number of resetPassword calls completed with it
  nodeEnv,   \* process.env.NODE_ENV of the deployment
  now,       \* the clock
  resp,      \* the last response sent, with what identifies its request
  webToken,      \* web client, App: the `token` state (NoToken for null)
  authorization, \* web client, axios: the default Authorization header
  webTasks,      \* web client, useTasks: the `tasks` state, the rendered list
  loading,       \* web client, useTasks: the `loading` state
  error,         \* web client, useTasks: the `error` state ("null" for null)
  pending,       \* web client: the GET /tasks requests of refresh() awaiting their response
  enabledSeen    \* web client, useTasks: `enabled` as the effect last ran with it

webVars == <<webToken, authorization, webTasks, loading, error, pending, enabledSeen>>
vars == <<tasks, nextId, creator, users, inflight, nextToken, issued, latest, consumed, nodeEnv, now, resp, webVars>>
taskVars == <<tasks, nextId, creator>>
authVars == <<users, inflight, nextToken, issued, latest, consumed>>

----------------------------------------------------------------------------
(* Bounds *)

MaxTasks == 2       \* tasks ever created
MaxTime == 1        \* last clock value, in hours
MaxTokens == 2      \* reset tokens ever generated
MaxInflight == 2    \* auth requests in flight at once

----------------------------------------------------------------------------
(* Generic helpers on objects *)

Has(o, k) == k \in DOMAIN o

\* the keys of o that are in ks (zod's default "strip" of unknown keys)
Pick(o, ks) == [k \in (DOMAIN o) \cap ks |-> o[k]]

\* { ...base, ...over }
Merge(base, over) == over @@ base

EmptyObj == [k \in {} |-> ""]

NoResponse == [op |-> "none", status |-> 0]

----------------------------------------------------------------------------
(* Bearer tokens: src/TaskManager/src/models/User.ts signToken,            *)
(* src/TaskManager/src/middleware/auth.ts requireAuth                      *)

UserIds == {"u1", "u2"}
EmailOf(u) == IF u = "u1" THEN "a@x" ELSE "b@x"
NeverExpires == MaxTime + 1
NoName == EmptyObj

\* sign({sub, email, name}, JWT_SECRET, {expiresIn}): sig tells whether the
\* signature was made with JWT_SECRET
\* (nm is the object holding the optional name: {} or {name})
signToken(id, email, nm, exp) ==
  Merge([sub |-> id, email |-> email, sig |-> "JWT_SECRET", exp |-> exp], nm)

\* jwt.verify: signature made with the secret and not expired
jwtVerify(token, t) == token.sig = "JWT_SECRET" /\ t < token.exp

\* Authorization headers a request may carry
Headers ==
  { [scheme |-> "none"] } \cup
  { [scheme |-> "Bearer", token |-> signToken(u, EmailOf(u), NoName, NeverExpires)] : u \in UserIds }

\* further Authorization headers: another scheme, a token signed with another
\* secret, and a token of u1 (with a name) that expires at the first tick
GateHeaders ==
  Headers \cup
  { [scheme |-> "Basic", token |-> signToken("u1", "a@x", NoName, NeverExpires)],
    [scheme |-> "Bearer", token |-> [sub |-> "u1", email |-> "a@x", sig |-> "forged", exp |-> NeverExpires]],
    [scheme |-> "Bearer", token |-> signToken("u1", "a@x", [name |-> "n"], 1)] }

requireAuthRevoking(hdr, t) ==
  /\ hdr.scheme = "Bearer"
  /\ jwtVerify(hdr.token, t)
  /\ \A tok \in DOMAIN consumed : issued[tok].user # hdr.token.sub

requireAuthUnverified(hdr, t) == hdr.scheme = "Bearer"

\* requireAuth: TRUE when next() is called
requireAuth(hdr, t) == hdr.scheme = "Bearer" /\ jwtVerify(hdr.token, t)

\* req.user: { id: payload.sub, email: payload.email, name: payload.name }
reqUser(hdr) ==
  Merge([id |-> hdr.token.sub, email |-> hdr.token.email], Pick(hdr.token, {"name"}))

\* req.user.id as the controllers read it
CallerOf(hdr) == reqUser(hdr).id

Unauthorized(op, hdr) ==
  [op |-> op, status |-> 401, body |-> [error |-> "Unauthorized"]]

----------------------------------------------------------------------------
(* Task schemas: src/unnamed/part_003 *)

Priorities == {"low", "medium", "high"}
IsoDates == {"d1", "d2"}
\* new Date(isoString)
ToDate(s) == IF s = "d1" THEN 1 ELSE 2

TaskBodyKeys == {"title", "description", "priority", "dueDate", "completed"}

BodyFieldsUnchecked(b) == TRUE

\* the fields both body schemas check the same way
BodyFieldsOk(b) ==
  /\ Has(b, "title") => b.title # ""
  /\ Has(b, "priority") => b.priority \in Priorities
  /\ Has(b, "dueDate") => b.dueDate \in IsoDates

createTaskSchemaOk(b) == Has(b, "title") /\ BodyFieldsOk(b)

\* parsed body: unknown keys stripped, defaults filled in
createTaskSchema(b) ==
  Merge([priority |-> "medium", completed |-> FALSE], Pick(b, TaskBodyKeys))

updateTaskSchemaOk(b) == BodyFieldsOk(b)

updateTaskSchemaDefaulting(b) ==
  Merge([priority |-> "medium", completed |-> FALSE], Pick(b, TaskBodyKeys))

updateTaskSchemaPassthrough(b) == b

\* parsed body: unknown keys stripped, every field optional, no defaults
updateTaskSchema(b) == Pick(b, TaskBodyKeys)

ValidationError(op, hdr) ==
  [op |-> op, caller |-> CallerOf(hdr), status |-> 400, body |-> [error |-> "ValidationError"]]

\* Number(s) for the query-string values used here; -1 stands for NaN
ToNumber(s) ==
  CASE s = "0" -> 0 [] s = "1" -> 1 [] s = "2" -> 2 [] s = "100" -> 100
    [] s = "101" -> 101 [] OTHER -> -1

\* Boolean(s): every non-empty string is truthy
ToBoolean(s) == s # ""

QueryKeys == {"search", "priority", "completed", "dueBefore", "dueAfter",
              "page", "limit", "sort", "order"}

listQuerySchemaOk(q) ==
  /\ Has(q, "priority") => q.priority \in Priorities
  /\ Has(q, "dueBefore") => q.dueBefore \in IsoDates
  /\ Has(q, "dueAfter") => q.dueAfter \in IsoDates
  /\ Has(q, "page") => ToNumber(q.page) >= 1
  /\ Has(q, "limit") => (ToNumber(q.limit) >= 1 /\ ToNumber(q.limit) <= 100)
  /\ Has(q, "sort") => q.sort \in {"createdAt", "dueDate", "priority"}
  /\ Has(q, "order") => q.order \in {"asc", "desc"}

\* parsed query: coercions applied, defaults filled in
listQuerySchema(q) ==
  LET coerced == [k \in (DOMAIN q) \cap QueryKeys |->
                    CASE k = "completed" -> ToBoolean(q[k])
                      [] k \in {"page", "limit"} -> ToNumber(q[k])
                      [] OTHER -> q[k]]
  IN  Merge([page |-> 1, limit |-> 20, sort |-> "createdAt", order |-> "desc"], coerced)

----------------------------------------------------------------------------
(* Task ids: ObjectIds of the Task collection, and what a client may put   *)
(* in the :id path segment                                                 *)

OID(n) == [oid |-> n]
MalformedId == [raw |-> "abc"]
IdParams == { OID(n) : n \in 1..MaxTasks } \cup { MalformedId }
IsObjectId(p) == Has(p, "oid")

\* an error that reaches errorHandler: src/unnamed/part_008 281-284
errorHandler(op, hdr, err) ==
  [op |-> op, caller |-> CallerOf(hdr),
   status |-> IF Has(err, "status") THEN err.status ELSE 500,
   body |-> [error |-> err.name, message |-> err.message]]

\* mongoose cannot cast the filter's _id to an ObjectId
CastError == [name |-> "CastError", message |-> "Cast to ObjectId failed"]

----------------------------------------------------------------------------
(* Task service: src/unnamed/part_002 *)

FindAnyOwner(userId, p) ==
  { n \in DOMAIN tasks : p = OID(n) }

\* Task.findOne({ _id: id, user: userId }): the matching task numbers
FindOwned(userId, p) ==
  { n \in DOMAIN tasks : p = OID(n) /\ tasks[n].user = userId }

\* the document Task.create stores
NewTaskDoc(userId, data) ==
  LET d == IF Has(data, "dueDate") THEN [data EXCEPT !.dueDate = ToDate(data.dueDate)] ELSE data
  IN  Merge(Merge(d, [user |-> userId]), [createdAt |-> now, updatedAt |-> now])

\* createTask(userId, data): the stored collection and the created document
createTask(userId, data) ==
  [n |-> nextId, doc |-> NewTaskDoc(userId, data)]

MatchesAnyUser(doc, userId, q) ==
  /\ Has(q, "priority") => doc.priority = q.priority
  /\ Has(q, "completed") => doc.completed = q.completed
  /\ Has(q, "dueBefore") => (Has(doc, "dueDate") /\ doc.dueDate <= ToDate(q.dueBefore))
  /\ Has(q, "dueAfter") => (Has(doc, "dueDate") /\ doc.dueDate >= ToDate(q.dueAfter))
  /\ Has(q, "search") =>
        (doc.title = q.search \/ (Has(doc, "description") /\ doc.description = q.search))

\* the filter listTasks builds from the parsed query, applied to one document
\* ($text is modelled as a whole-word match on title or description)
Matches(doc, userId, q) ==
  /\ doc.user = userId
  /\ Has(q, "priority") => doc.priority = q.priority
  /\ Has(q, "completed") => doc.completed = q.completed
  /\ Has(q, "dueBefore") => (Has(doc, "dueDate") /\ doc.dueDate <= ToDate(q.dueBefore))
  /\ Has(q, "dueAfter") => (Has(doc, "dueDate") /\ doc.dueDate >= ToDate(q.dueAfter))
  /\ Has(q, "search") =>
        (doc.title = q.search \/ (Has(doc, "description") /\ doc.description = q.search))

\* the value MongoDB compares when sorting by `field`: a missing field sorts
\* as null, before every value; strings compare lexicographically
SortKey(doc, field) ==
  CASE field = "createdAt" -> doc.createdAt
    [] field = "dueDate" -> (IF Has(doc, "dueDate") THEN doc.dueDate ELSE -1)
    [] field = "priority" ->
         (CASE doc.priority = "high" -> 1 [] doc.priority = "low" -> 2 [] OTHER -> 3)

\* sort(sortSpec): equal keys stay in insertion (_id) order
Before(a, b, field, order) ==
  LET ka == SortKey(tasks[a], field)
      kb == SortKey(tasks[b], field)
  IN  IF ka = kb THEN a < b
      ELSE IF order = "asc" THEN ka < kb ELSE ka > kb

Sorted(S, field, order) ==
  CHOOSE s \in [1..Cardinality(S) -> S] :
    \A i, j \in 1..Cardinality(S) : i < j => Before(s[i], s[j], field, order)

Min(a, b) == IF a < b THEN a ELSE b

\* listTasks(userId, query) on the parsed query (defaults already filled in)
listTasks(userId, q) ==
  LET matching == { n \in DOMAIN tasks : Matches(tasks[n], userId, q) }
      skip == (q.page - 1) * q.limit
      sorted == Sorted(matching, q.sort, q.order)
      page == SubSeq(sorted, skip + 1, Min(skip + q.limit, Len(sorted)))
  IN  [items |-> [i \in 1..Len(page) |-> Merge(tasks[page[i]], [_id |-> page[i]])],
       page |-> q.page, limit |-> q.limit, total |-> Cardinality(matching)]

\* updateTask's findOneAndUpdate: the patch is $set on the matched document and
\* the timestamps plugin sets updatedAt
ApplyPatch(doc, patch) ==
  LET d == IF Has(patch, "dueDate") THEN [patch EXCEPT !.dueDate = ToDate(patch.dueDate)] ELSE patch
  IN  Merge(Merge(doc, d), [updatedAt |-> now])

Json(n) == Merge(tasks[n], [_id |-> n])

----------------------------------------------------------------------------
(* Request inputs *)

CreateBodies ==
  { [title |-> "a"],
    [title |-> "b", priority |-> "high", dueDate |-> "d1", user |-> "u2"],
    [priority |-> "low"] }

PatchBodies ==
  { [completed |-> TRUE],
    [title |-> "b", user |-> "u2"],
    [priority |-> "urgent"] }

ListQueries ==
  { EmptyObj,
    [completed |-> "true", order |-> "asc"],
    [page |-> "0"] }

----------------------------------------------------------------------------
(* Task routes: src/unnamed/part_003 8-16 with the controllers of          *)
(* src/TaskManager/src/controllers/task.controller.ts                      *)

\* POST /tasks
Create(hdr, body) ==
  /\ IF ~requireAuth(hdr, now) THEN
       /\ resp' = Unauthorized("create", hdr)
       /\ UNCHANGED taskVars
     ELSE IF ~createTaskSchemaOk(body) THEN
       /\ resp' = ValidationError("create", hdr)
       /\ UNCHANGED taskVars
     ELSE
       LET c == createTask(CallerOf(hdr), createTaskSchema(body)) IN
       /\ nextId <= MaxTasks
       /\ tasks' = (c.n :> c.doc) @@ tasks
       /\ nextId' = nextId + 1
       /\ creator' = (c.n :> CallerOf(hdr)) @@ creator
       /\ resp' = [op |-> "create", caller |-> CallerOf(hdr), status |-> 201,
                   body |-> Merge(c.doc, [_id |-> c.n])]
  /\ UNCHANGED <<authVars, nodeEnv, webVars, now>>

\* GET /tasks
listResponse(hdr, query) ==
  IF ~requireAuth(hdr, now) THEN Unauthorized("list", hdr)
  ELSE IF ~listQuerySchemaOk(query) THEN ValidationError("list", hdr)
  ELSE [op |-> "list", caller |-> CallerOf(hdr), status |-> 200, query |-> query,
        body |-> listTasks(CallerOf(hdr), listQuerySchema(query))]

List(hdr, query) ==
  /\ resp' = listResponse(hdr, query)
  /\ UNCHANGED <<taskVars, authVars, nodeEnv, webVars, now>>

secondReadIsolated(r, fresh) == r.read

\* the result of Promise.all([find, countDocuments]) once the query that
\* ran second has read the collection: r.read is what the query that ran
\* first returned, fresh is listTasks on the collection as it is now
secondRead(r, fresh) ==
  IF r.first = "items" THEN [items |-> r.read.items, total |-> fresh.total]
  ELSE [items |-> fresh.items, total |-> r.read.total]

\* GET /tasks up to the first of its two store reads (the item query and the
\* count query are started together and the store serves them in either
\* order); matched is the number of matching tasks that read saw
ListRead(hdr, query, first) ==
  /\ IF ~requireAuth(hdr, now) THEN
       /\ resp' = Unauthorized("list", hdr)
       /\ UNCHANGED inflight
     ELSE IF ~listQuerySchemaOk(query) THEN
       /\ resp' = ValidationError("list", hdr)
       /\ UNCHANGED inflight
     ELSE
       LET res == listTasks(CallerOf(hdr), listQuerySchema(query)) IN
       /\ Cardinality(inflight) < MaxInflight
       /\ inflight' = inflight \cup
            { [op |-> "list", caller |-> CallerOf(hdr), query |-> query, first |-> first,
               read |-> [items |-> res.items, total |-> res.total]] }
       /\ UNCHANGED resp
  /\ UNCHANGED <<taskVars, users, nextToken, issued, latest, consumed, nodeEnv, webVars, now>>

\* the second store read of GET /tasks and the response; matchedAtItems is
\* the number of matching tasks in the state the items were read from
ListRespond(r) ==
  /\ r \in inflight /\ r.op = "list"
  /\ inflight' = inflight \ {r}
  /\ LET q == listQuerySchema(r.query)
         fresh == listTasks(r.caller, q)
         res == secondRead(r, [items |-> fresh.items, total |-> fresh.total])
     IN  resp' = [op |-> "list", caller |-> r.caller, status |-> 200, query |-> r.query,
                  body |-> [items |-> res.items, page |-> q.page, limit |-> q.limit,
                            total |-> res.total],
                  matchedAtItems |-> IF r.first = "items" THEN r.read.total ELSE fresh.total]
  /\ UNCHANGED <<taskVars, users, nextToken, issued, latest, consumed, nodeEnv, webVars, now>>

\* GET /tasks/:id
Get(hdr, id) ==
  /\ resp' =
       IF ~requireAuth(hdr, now) THEN Unauthorized("get", hdr)
       ELSE IF ~IsObjectId(id) THEN errorHandler("get", hdr, CastError) @@ [id |-> id]
       ELSE LET found == FindOwned(CallerOf(hdr), id) IN
            IF found = {} THEN
              [op |-> "get", caller |-> CallerOf(hdr), id |-> id, status |-> 404, body |-> [error |-> "NotFound"]]
            ELSE
              [op |-> "get", caller |-> CallerOf(hdr), id |-> id, status |-> 200,
               body |-> Json(CHOOSE n \in found : TRUE)]
  /\ UNCHANGED <<taskVars, authVars, nodeEnv, webVars, now>>

\* PATCH /tasks/:id
Patch(hdr, id, body) ==
  /\ IF ~requireAuth(hdr, now) THEN
       /\ resp' = Unauthorized("patch", hdr)
       /\ UNCHANGED tasks
     ELSE IF ~updateTaskSchemaOk(body) THEN
       /\ resp' = ValidationError("patch", hdr)
       /\ UNCHANGED tasks
     ELSE IF ~IsObjectId(id) THEN
       /\ resp' = errorHandler("patch", hdr, CastError) @@ [id |-> id]
       /\ UNCHANGED tasks
     ELSE
       LET found == FindOwned(CallerOf(hdr), id) IN
       IF found = {} THEN
         /\ resp' = [op |-> "patch", caller |-> CallerOf(hdr), id |-> id, status |-> 404,
                     body |-> [error |-> "NotFound"]]
         /\ UNCHANGED tasks
       ELSE
         LET n == CHOOSE m \in found : TRUE
             doc == ApplyPatch(tasks[n], updateTaskSchema(body))
         IN  /\ tasks' = [tasks EXCEPT ![n] = doc]
             /\ resp' = [op |-> "patch", caller |-> CallerOf(hdr), id |-> id, status |-> 200,
                         body |-> Merge(doc, [_id |-> n]), patch |-> body]
  /\ UNCHANGED <<nextId, creator, authVars, nodeEnv, webVars, now>>

removeNotFound(userId, id, found) ==
  IF found = {} THEN
    [op |-> "remove", caller |-> userId, id |-> id, status |-> 404,
     body |-> [error |-> "NotFound"]]
  ELSE [op |-> "remove", caller |-> userId, id |-> id, status |-> 204]

\* the response of the remove controller once deleteTask has returned
remove(userId, id, found) ==
  [op |-> "remove", caller |-> userId, id |-> id, status |-> 204]

\* DELETE /tasks/:id
Remove(hdr, id) ==
  /\ IF ~requireAuth(hdr, now) THEN
       /\ resp' = Unauthorized("remove", hdr)
       /\ UNCHANGED tasks
     ELSE IF ~IsObjectId(id) THEN
       /\ resp' = errorHandler("remove", hdr, CastError) @@ [id |-> id]
       /\ UNCHANGED tasks
     ELSE
       LET found == FindOwned(CallerOf(hdr), id) IN
       /\ tasks' = [n \in (DOMAIN tasks) \ found |-> tasks[n]]
       /\ resp' = remove(CallerOf(hdr), id, found)
  /\ UNCHANGED <<nextId, creator, authVars, nodeEnv, webVars, now>>

\* GET /user/me
Me(hdr) ==
  /\ resp' =
       IF ~requireAuth(hdr, now) THEN Unauthorized("me", hdr)
       ELSE IF reqUser(hdr).id \notin DOMAIN users THEN
         [op |-> "me", caller |-> CallerOf(hdr), status |-> 404, body |-> [error |-> "NotFound"]]
       ELSE LET u == reqUser(hdr).id IN
         [op |-> "me", caller |-> CallerOf(hdr), status |-> 200,
          body |-> Merge([id |-> u, email |-> users[u].email],
                         Pick(users[u], {"name", "themeBackgroundUrl"}))]
  /\ UNCHANGED <<taskVars, authVars, nodeEnv, webVars, now>>

----------------------------------------------------------------------------
(* Maintenance scripts: src/TaskManager/src/scripts/seed.ts and the clear   *)
(* script, src/unnamed/part_007                                            *)

\* the documents seed.ts passes to Task.insertMany
SeedDocs ==
  << [title |-> "Read docs", description |-> "Read backend guide",
      priority |-> "low", completed |-> FALSE],
     [title |-> "Plan UI", description |-> "Design TaskList and TaskForm",
      priority |-> "medium", completed |-> FALSE],
     [title |-> "Implement API", description |-> "Wire routes and controllers",
      priority |-> "high", completed |-> TRUE] >>

\* document validation of TaskSchema: user and title are required, priority
\* is one of the enum
TaskSchemaValid(doc) ==
  /\ Has(doc, "user")
  /\ Has(doc, "title") /\ doc.title # ""
  /\ Has(doc, "priority") => doc.priority \in Priorities

\* Task.insertMany(docs): every document is validated first, and if one
\* fails nothing is inserted and the call rejects
insertMany(docs) ==
  IF \A i \in 1..Len(docs) : TaskSchemaValid(docs[i])
  THEN [ok |-> TRUE,
        tasks |-> [n \in (DOMAIN tasks) \cup (nextId..(nextId + Len(docs) - 1)) |->
                     IF n \in DOMAIN tasks THEN tasks[n]
                     ELSE Merge(docs[n - nextId + 1], [createdAt |-> now, updatedAt |-> now])]]
  ELSE [ok |-> FALSE, tasks |-> tasks]

\* seed.ts run(): countDocuments, then insertMany when the count is 0; an
\* error is caught and sets the exit code
Seed ==
  /\ IF Cardinality(DOMAIN tasks) = 0 THEN
       LET res == insertMany(SeedDocs) IN
       /\ tasks' = res.tasks
       /\ nextId' = IF res.ok THEN nextId + Len(SeedDocs) ELSE nextId
       /\ creator' = [n \in (DOMAIN creator) \cup (DOMAIN res.tasks) |->
                       IF n \in DOMAIN creator THEN creator[n] ELSE "seed"]
       /\ resp' = [op |-> "seed", status |-> IF res.ok THEN 0 ELSE 1]
     ELSE
       /\ UNCHANGED taskVars
       /\ resp' = [op |-> "seed", status |-> 0]
  /\ UNCHANGED <<authVars, nodeEnv, webVars, now>>

\* clear script run(): Task.deleteMany({})
Clear ==
  /\ tasks' = <<>>
  /\ resp' = [op |-> "clear", status |-> 0, deleted |-> Cardinality(DOMAIN tasks)]
  /\ UNCHANGED <<nextId, creator, authVars, nodeEnv, webVars, now>>

\* multer's limits.fileSize: 5 * 1024 * 1024 bytes
FileSizeLimit == 5242880

\* the multipart body of POST /user/theme: no `image` part, or an image part
\* with its size in bytes and the extension of its original name
Uploads ==
  { [present |-> FALSE],
    [present |-> TRUE, size |-> 1024, ext |-> ".png"],
    [present |-> TRUE, size |-> FileSizeLimit, ext |-> ""],
    [present |-> TRUE, size |-> FileSizeLimit + 1, ext |-> ".png"] }

\* the error upload.single('image') passes to next() when the part exceeds
\* limits.fileSize
MulterError == [name |-> "MulterError", message |-> "File too large"]

\* storage.filename: `${userId}-${Date.now()}${ext}`
ThemeFilename(userId, file, t) ==
  [user |-> userId, at |-> t, ext |-> IF file.ext = "" THEN ".jpg" ELSE file.ext]

\* POST /user/theme
SetTheme(hdr, up) ==
  /\ IF ~requireAuth(hdr, now) THEN
       /\ resp' = Unauthorized("theme", hdr)
       /\ UNCHANGED users
     ELSE IF up.present /\ up.size > FileSizeLimit THEN
       /\ resp' = errorHandler("theme", hdr, MulterError)
       /\ UNCHANGED users
     ELSE IF ~up.present THEN
       /\ resp' = [op |-> "theme", caller |-> CallerOf(hdr), status |-> 400,
                   body |-> [error |-> "ValidationError", message |-> "image file is required"]]
       /\ UNCHANGED users
     ELSE IF CallerOf(hdr) \notin DOMAIN users THEN
       /\ resp' = [op |-> "theme", caller |-> CallerOf(hdr), status |-> 404,
                   body |-> [error |-> "NotFound"]]
       /\ UNCHANGED users
     ELSE
       LET publicUrl == [dir |-> "/uploads/themes/",
                         file |-> ThemeFilename(CallerOf(hdr), up, now)]
       IN  /\ users' = [users EXCEPT ![CallerOf(hdr)] =
                          Merge(@, [themeBackgroundUrl |-> publicUrl])]
           /\ resp' = [op |-> "theme", caller |-> CallerOf(hdr), status |-> 200,
                       body |-> [ok |-> TRUE, themeBackgroundUrl |-> publicUrl]]
  /\ UNCHANGED <<taskVars, inflight, nextToken, issued, latest, consumed, nodeEnv, webVars, now>>

Tick ==
  /\ now < MaxTime
  /\ now' = now + 1
  /\ UNCHANGED <<taskVars, authVars, nodeEnv, webVars, resp>>

----------------------------------------------------------------------------
(* Credential and password-reset service:                                  *)
(* src/TaskManager/src/models/User.ts 24-98, with the controllers of       *)
(* src/TaskManager/src/controllers/task.controller.ts 35-64.               *)
(* A service call that awaits the store twice is two actions, the first    *)
(* leaving a record in `inflight` for the second.                          *)

\* bcrypt.hash(password, 10)
Bcrypt(pw) == [bcrypt |-> pw]
\* bcrypt.compare(password, hash)
Compare(pw, hash) == hash = Bcrypt(pw)
RawTokenAsHash(raw) == [raw |-> raw]

\* crypto.createHash('sha256').update(rawToken).digest('hex')
Sha256(raw) == [sha256 |-> raw]

\* String.prototype.trim on the names used here
Trim(str) == CASE str = " n " -> "n" [] str = "  " -> "" [] OTHER -> str

ResetTTL == 1        \* 60 * 60 * 1000 ms
JWT_EXPIRES == 168   \* '7d'

ResetKeys == {"passwordResetTokenHash", "passwordResetExpires"}

\* User.findOne({ email })
FindByEmail(email) == { u \in DOMAIN users : users[u].email = email }

\* the _id User.create gives the new document
NewUserId == IF "u1" \in DOMAIN users THEN "u2" ELSE "u1"

PublicUserWithHash(u, doc) ==
  Merge([id |-> u, email |-> doc.email], Pick(doc, {"name", "passwordHash"}))

\* { id, email, name } of the responses
PublicUser(u, doc) == Merge([id |-> u, email |-> doc.email], Pick(doc, {"name"}))

HttpError(msg, status) == [name |-> "Error", message |-> msg, status |-> status]
DuplicateKey == [name |-> "MongoServerError", message |-> "E11000 duplicate key error"]

\* what `resp` keeps of a request body
ReqId(body) == Pick(body, {"email", "token"})

AuthError(op, req, err) ==
  [op |-> op, req |-> ReqId(req),
   status |-> IF Has(err, "status") THEN err.status ELSE 500,
   body |-> [error |-> err.name, message |-> err.message]]

AuthInvalid(op, req) ==
  [op |-> op, req |-> ReqId(req), status |-> 400, body |-> [error |-> "ValidationError"]]

\* the store state of the tasks API: both accounts registered
RegisteredUsers ==
  [u \in UserIds |-> [email |-> EmailOf(u), passwordHash |-> Bcrypt("p1")]]

(* POST /auth/register *)
RegisterBodies ==
  { [email |-> "a@x", password |-> "p1"],
    [email |-> "a@x"] }

RegisterFind(body) ==
  /\ IF ~Has(body, "email") \/ ~Has(body, "password") THEN
       /\ resp' = AuthInvalid("register", body)
       /\ UNCHANGED inflight
     ELSE IF FindByEmail(body.email) # {} THEN
       /\ resp' = AuthError("register", body, HttpError("EmailAlreadyExists", 409))
       /\ UNCHANGED inflight
     ELSE
       /\ Cardinality(inflight) < MaxInflight
       /\ inflight' = inflight \cup { [op |-> "register", body |-> body] }
       /\ UNCHANGED resp
  /\ UNCHANGED <<taskVars, users, nextToken, issued, latest, consumed, nodeEnv, webVars, now>>

\* User.create under the unique index on email
RegisterCreate(r) ==
  /\ r \in inflight /\ r.op = "register"
  /\ inflight' = inflight \ {r}
  /\ IF FindByEmail(r.body.email) # {} THEN
       /\ resp' = AuthError("register", r.body, DuplicateKey)
       /\ UNCHANGED users
     ELSE
       LET u == NewUserId
           nm == IF Has(r.body, "name") THEN [name |-> Trim(r.body.name)] ELSE EmptyObj
           doc == Merge([email |-> r.body.email, passwordHash |-> Bcrypt(r.body.password)], nm)
       IN  /\ u \notin DOMAIN users
           /\ users' = (u :> doc) @@ users
           /\ resp' = [op |-> "register", req |-> ReqId(r.body), status |-> 201,
                       body |-> [user |-> PublicUser(u, doc),
                                 token |-> signToken(u, doc.email, nm, now + JWT_EXPIRES)]]
  /\ UNCHANGED <<taskVars, nextToken, issued, latest, consumed, nodeEnv, webVars, now>>

(* POST /auth/login *)
LoginBodies ==
  { [email |-> "a@x", password |-> "p1"],
    [email |-> "a@x", password |-> "p2"],
    [email |-> "b@x", password |-> "p1"],
    [email |-> "a@x"] }

loginEnumerating(body) ==
  LET found == FindByEmail(body.email) IN
  IF found = {} THEN HttpError("UserNotFound", 404)
  ELSE IF ~Compare(body.password, users[CHOOSE u \in found : TRUE].passwordHash)
       THEN HttpError("InvalidCredentials", 401)
  ELSE EmptyObj

\* login(email, password): the error it throws, or {} when it returns
login(body) ==
  LET found == FindByEmail(body.email) IN
  IF found = {} THEN HttpError("InvalidCredentials", 401)
  ELSE IF ~Compare(body.password, users[CHOOSE u \in found : TRUE].passwordHash)
       THEN HttpError("InvalidCredentials", 401)
  ELSE EmptyObj

\* the response of POST /auth/login
loginResponse(body) ==
  IF ~Has(body, "email") \/ ~Has(body, "password") THEN AuthInvalid("login", body)
  ELSE IF login(body) # EmptyObj THEN
    AuthError("login", body, login(body)) @@ [found |-> FindByEmail(body.email) # {}]
  ELSE LET u == CHOOSE v \in FindByEmail(body.email) : TRUE IN
       [op |-> "login", req |-> ReqId(body), status |-> 200,
        body |-> [user |-> PublicUser(u, users[u]),
                  token |-> signToken(u, users[u].email, Pick(users[u], {"name"}),
                                      now + JWT_EXPIRES)]]

Login(body) ==
  /\ resp' = loginResponse(body)
  /\ UNCHANGED <<taskVars, authVars, nodeEnv, webVars, now>>

(* POST /auth/forgot *)
ForgotBodies == { [email |-> "a@x"], [email |-> "b@x"], EmptyObj }

includeTokenAlways(env) == TRUE

\* process.env.NODE_ENV !== 'production'
includeToken(env) == env # "production"

\* requestPasswordReset up to `await user.save()`
ForgotFind(body) ==
  /\ IF ~Has(body, "email") THEN
       /\ resp' = AuthInvalid("forgot", body)
       /\ UNCHANGED <<inflight, nextToken>>
     ELSE IF FindByEmail(body.email) = {} THEN
       /\ resp' = [op |-> "forgot", req |-> ReqId(body), status |-> 200, body |-> [ok |-> TRUE],
                   found |-> FALSE]
       /\ UNCHANGED <<inflight, nextToken>>
     ELSE
       /\ Cardinality(inflight) < MaxInflight
       /\ nextToken <= MaxTokens
       /\ inflight' = inflight \cup
            { [op |-> "forgot", body |-> body,
               user |-> CHOOSE u \in FindByEmail(body.email) : TRUE,
               rawToken |-> nextToken, expires |-> now + ResetTTL] }
       /\ nextToken' = nextToken + 1
       /\ UNCHANGED resp
  /\ UNCHANGED <<taskVars, users, issued, latest, consumed, nodeEnv, webVars, now>>

\* user.save() of requestPasswordReset and the response
ForgotSave(r) ==
  /\ r \in inflight /\ r.op = "forgot"
  /\ inflight' = inflight \ {r}
  /\ users' = [users EXCEPT ![r.user] =
                 Merge(@, [passwordResetTokenHash |-> Sha256(r.rawToken),
                           passwordResetExpires |-> r.expires])]
  /\ issued' = (r.rawToken :> [user |-> r.user, expires |-> r.expires]) @@ issued
  /\ latest' = (r.user :> r.rawToken) @@ latest
  /\ resp' = [op |-> "forgot", req |-> ReqId(r.body), status |-> 200,
              body |-> IF includeToken(nodeEnv) THEN [ok |-> TRUE, token |-> r.rawToken]
                       ELSE [ok |-> TRUE],
              found |-> TRUE]
  /\ UNCHANGED <<taskVars, nextToken, consumed, nodeEnv, webVars, now>>

(* POST /auth/reset *)
\* raw tokens a client can present: the ones a reset request saved, and a guess
KnownTokens == (DOMAIN issued) \cup {0}

ResetBodies ==
  { [token |-> t, password |-> "p2"] : t \in KnownTokens } \cup
  { [token |-> t, password |-> "p2", name |-> " n "] : t \in KnownTokens } \cup
  { [password |-> "p2"] }

ResetLookupGte(rawToken, t) ==
  { u \in DOMAIN users :
      /\ ResetKeys \subseteq DOMAIN users[u]
      /\ users[u].passwordResetTokenHash = Sha256(rawToken)
      /\ users[u].passwordResetExpires >= t }

\* User.findOne({ passwordResetTokenHash: tokenHash, passwordResetExpires: { $gt: now } })
ResetLookup(rawToken, t) ==
  { u \in DOMAIN users :
      /\ ResetKeys \subseteq DOMAIN users[u]
      /\ users[u].passwordResetTokenHash = Sha256(rawToken)
      /\ users[u].passwordResetExpires > t }

\* resetPassword up to `await user.save()`
ResetFind(body) ==
  /\ IF ~Has(body, "token") \/ ~Has(body, "password") THEN
       /\ resp' = AuthInvalid("reset", body)
       /\ UNCHANGED inflight
     ELSE IF ResetLookup(body.token, now) = {} THEN
       /\ resp' = AuthError("reset", body, HttpError("InvalidOrExpiredResetToken", 400))
       /\ UNCHANGED inflight
     ELSE
       LET u == CHOOSE v \in ResetLookup(body.token, now) : TRUE IN
       /\ Cardinality(inflight) < MaxInflight
       /\ inflight' = inflight \cup
            { [op |-> "reset", body |-> body, user |-> u,
               loaded |-> Pick(users[u], {"name"})] }
       /\ UNCHANGED resp
  /\ UNCHANGED <<taskVars, users, nextToken, issued, latest, consumed, nodeEnv, webVars, now>>

ResetWritesKeepingToken(r) ==
  LET nm == IF Has(r.body, "name") /\ Trim(r.body.name) # ""
            THEN [name |-> Trim(r.body.name)] ELSE EmptyObj
  IN  [set |-> Merge([passwordHash |-> Bcrypt(r.body.password)],
                     IF nm # r.loaded THEN nm ELSE EmptyObj),
       unset |-> {},
       name |-> Merge(r.loaded, nm)]

ResetWritesKeepingExpiry(r) ==
  LET nm == IF Has(r.body, "name") /\ Trim(r.body.name) # ""
            THEN [name |-> Trim(r.body.name)] ELSE EmptyObj
  IN  [set |-> Merge([passwordHash |-> Bcrypt(r.body.password)],
                     IF nm # r.loaded THEN nm ELSE EmptyObj),
       unset |-> {"passwordResetTokenHash"},
       name |-> Merge(r.loaded, nm)]

ResetWritesKeepingPassword(r) ==
  LET nm == IF Has(r.body, "name") /\ Trim(r.body.name) # ""
            THEN [name |-> Trim(r.body.name)] ELSE EmptyObj
  IN  [set |-> IF nm # r.loaded THEN nm ELSE EmptyObj,
       unset |-> ResetKeys,
       name |-> Merge(r.loaded, nm)]

\* the modified paths user.save() of resetPassword writes, and the name the
\* in-memory document ends with
ResetWrites(r) ==
  LET nm == IF Has(r.body, "name") /\ Trim(r.body.name) # ""
            THEN [name |-> Trim(r.body.name)] ELSE EmptyObj
  IN  [set |-> Merge([passwordHash |-> Bcrypt(r.body.password)],
                     IF nm # r.loaded THEN nm ELSE EmptyObj),
       unset |-> ResetKeys,
       name |-> Merge(r.loaded, nm)]

\* user.save() of resetPassword and the response
ResetSave(r) ==
  /\ r \in inflight /\ r.op = "reset"
  /\ inflight' = inflight \ {r}
  /\ LET w == ResetWrites(r)
         doc == Merge(users[r.user], w.set)
     IN  /\ users' = [users EXCEPT ![r.user] = [k \in (DOMAIN doc) \ w.unset |-> doc[k]]]
         /\ resp' = [op |-> "reset", req |-> ReqId(r.body), status |-> 200,
                     body |-> [user |-> Merge([id |-> r.user, email |-> users[r.user].email], w.name),
                               token |-> signToken(r.user, users[r.user].email, w.name,
                                                   now + JWT_EXPIRES)]]
  /\ consumed' = (r.body.token :>
                    (IF r.body.token \in DOMAIN consumed THEN consumed[r.body.token] + 1 ELSE 1))
                 @@ consumed
  /\ UNCHANGED <<taskVars, nextToken, issued, latest, nodeEnv, webVars, now>>

----------------------------------------------------------------------------
(* The web client: src/unnamed/part_001 (App), the useTasks hook of        *)
(* src/TaskManagerWeb/src/services/authService.ts 66-110, AuthDialog.tsx    *)
(* and api/axios.ts                                                        *)

MaxPending == 2     \* GET /tasks requests of the web client awaiting a response

\* useState<string | null>: null
NoToken == EmptyObj

\* api.defaults.headers.common without an Authorization entry
NoAuthorization == [scheme |-> "none"]

\* the page after its first render, nobody signed in: localStorage has no
\* token, useTasks starts with [], false, null and its effect ran disabled
InitWeb ==
  /\ webToken = NoToken
  /\ authorization = NoAuthorization
  /\ webTasks = <<>>
  /\ loading = FALSE
  /\ error = "null"
  /\ pending = <<>>
  /\ enabledSeen = FALSE

\* setAuthToken(token)
setAuthToken(jwt) == [scheme |-> "Bearer", token |-> jwt]

\* getTasks() as refresh calls it: the request leaves with the Authorization
\* header axios holds at that moment
getTasks(hdr) == Append(pending, [authorization |-> hdr, res |-> NoResponse])

\* seq without its i-th element
RemoveAt(seq, i) == SubSeq(seq, 1, i - 1) \o SubSeq(seq, i + 1, Len(seq))

\* refresh() up to `await getTasks()`
refresh(hdr) ==
  /\ Len(pending) < MaxPending
  /\ loading' = TRUE
  /\ pending' = getTasks(hdr)
  /\ UNCHANGED <<webTasks, error>>

\* AuthDialog onSubmit in mode 'login', shown while nobody is signed in:
\* login, setAuthToken(res.token), then App's onLoggedIn (setToken, refresh)
WebLogin(body) ==
  /\ webToken = NoToken
  /\ resp' = loginResponse(body)
  /\ IF resp'.status = 200 THEN
       /\ authorization' = setAuthToken(resp'.body.token)
       /\ webToken' = [jwt |-> resp'.body.token]
       /\ refresh(authorization')
     ELSE UNCHANGED <<webToken, authorization, webTasks, loading, error, pending>>
  /\ UNCHANGED <<taskVars, authVars, nodeEnv, now, enabledSeen>>

\* useTasks' effect on [refresh, enabled], run when enabled = !!token changed
EnabledEffect ==
  /\ enabledSeen # (webToken # NoToken)
  /\ enabledSeen' = (webToken # NoToken)
  /\ IF webToken # NoToken THEN refresh(authorization)
     ELSE UNCHANGED <<webTasks, loading, error, pending>>
  /\ UNCHANGED <<taskVars, authVars, nodeEnv, now, resp, webToken, authorization>>

\* the window focus listener, registered while a token is present
Focus ==
  /\ webToken # NoToken
  /\ refresh(authorization)
  /\ UNCHANGED <<taskVars, authVars, nodeEnv, now, resp, webToken, authorization, enabledSeen>>

\* the Retry button, rendered with the error while a token is present
Retry ==
  /\ webToken # NoToken
  /\ error # "null"
  /\ refresh(authorization)
  /\ UNCHANGED <<taskVars, authVars, nodeEnv, now, resp, webToken, authorization, enabledSeen>>

\* logout(): setToken(null), setUser(null), setAuthToken(undefined)
logout ==
  /\ webToken # NoToken
  /\ webToken' = NoToken
  /\ authorization' = NoAuthorization
  /\ UNCHANGED <<taskVars, authVars, nodeEnv, now, resp, webTasks, loading, error, pending, enabledSeen>>

\* the API serves the i-th outstanding GET /tasks of the web client
ServeTasks(i) ==
  /\ i \in DOMAIN pending
  /\ pending[i].res = NoResponse
  /\ resp' = listResponse(pending[i].authorization, EmptyObj)
  /\ pending' = [pending EXCEPT ![i].res = resp']
  /\ UNCHANGED <<taskVars, authVars, nodeEnv, now, webToken, authorization, webTasks, loading, error, enabledSeen>>

\* refresh() after `await getTasks()`, the response having arrived: 2xx
\* resolves (setTasks, setError(null)), any other status rejects (setError);
\* finally setLoading(false)
RefreshSettle(i) ==
  /\ i \in DOMAIN pending
  /\ pending[i].res # NoResponse
  /\ IF pending[i].res.status = 200 THEN
       /\ webTasks' = pending[i].res.body.items
       /\ error' = "null"
     ELSE
       /\ error' = "Request failed with status code 401"
       /\ UNCHANGED webTasks
  /\ loading' = FALSE
  /\ pending' = RemoveAt(pending, i)
  /\ UNCHANGED <<taskVars, authVars, nodeEnv, now, resp, webToken, authorization, enabledSeen>>

\* refresh() after `await getTasks()`, no response within axios' timeout
RefreshTimeout(i) ==
  /\ i \in DOMAIN pending
  /\ error' = "timeout of 10000ms exceeded"
  /\ loading' = FALSE
  /\ pending' = RemoveAt(pending, i)
  /\ UNCHANGED <<taskVars, authVars, nodeEnv, now, resp, webToken, authorization, webTasks, enabledSeen>>

----------------------------------------------------------------------------
(* The task API on its own *)

InitTasks ==
  /\ InitWeb
  /\ tasks = <<>>
  /\ nextId = 1
  /\ creator = <<>>
  /\ users = RegisteredUsers
  /\ inflight = {}
  /\ nextToken = 1
  /\ issued = <<>>
  /\ latest = EmptyObj
  /\ consumed = <<>>
  /\ nodeEnv = "development"
  /\ now = 0
  /\ resp = NoResponse

\* every task request, all served within one clock tick
NextTasks ==
  \/ \E hdr \in Headers, body \in CreateBodies : Create(hdr, body)
  \/ \E hdr \in Headers, query \in ListQueries : List(hdr, query)
  \/ \E hdr \in Headers, id \in IdParams : Get(hdr, id)
  \/ \E hdr \in Headers, id \in IdParams, body \in PatchBodies : Patch(hdr, id, body)
  \/ \E hdr \in Headers, id \in IdParams : Remove(hdr, id)

SpecTasks == InitTasks /\ [][NextTasks]_vars

----------------------------------------------------------------------------
(* Listing: tasks created at different times and GET /tasks with filters,  *)
(* sorting and paging                                                      *)

ListedBodies ==
  { [title |-> "a"],
    [title |-> "b", priority |-> "high", dueDate |-> "d1", completed |-> TRUE] }

PageQueries ==
  { EmptyObj,
    [page |-> "2", limit |-> "1", sort |-> "createdAt", order |-> "asc"],
    [page |-> "1", limit |-> "100", sort |-> "priority"],
    [completed |-> "true"],
    [completed |-> "false"],
    [priority |-> "high", dueBefore |-> "d1", dueAfter |-> "d1"],
    [limit |-> "101"] }

NextList ==
  \/ \E hdr \in Headers, body \in ListedBodies : Create(hdr, body)
  \/ \E hdr \in Headers, query \in PageQueries : List(hdr, query)
  \/ Tick

SpecList == InitTasks /\ [][NextList]_vars

----------------------------------------------------------------------------
(* Validation: requests that fail their schema in each way the schemas     *)
(* can refuse them, next to valid ones                                     *)

ValidateBodies ==
  { [title |-> "a"],
    [description |-> "d"],
    [title |-> ""],
    [title |-> "a", priority |-> "urgent"],
    [title |-> "a", dueDate |-> "tomorrow"] }

ValidateQueries ==
  { EmptyObj,
    [page |-> "0"],
    [page |-> "x"],
    [limit |-> "0"],
    [limit |-> "101"],
    [sort |-> "title"],
    [order |-> "up"],
    [priority |-> "urgent"] }

ValidatePatches ==
  { [completed |-> TRUE],
    [title |-> ""],
    [priority |-> "urgent"],
    [dueDate |-> "tomorrow"] }

NextValidate ==
  \/ \E hdr \in Headers, body \in ValidateBodies : Create(hdr, body)
  \/ \E hdr \in Headers, query \in ValidateQueries : List(hdr, query)
  \/ \E hdr \in Headers, id \in IdParams, body \in ValidatePatches : Patch(hdr, id, body)
  \/ \E hdr \in Headers, id \in IdParams : Remove(hdr, id)

SpecValidate == InitTasks /\ [][NextValidate]_vars

----------------------------------------------------------------------------
(* The authentication gate in front of the task and user routes, with      *)
(* every kind of Authorization header and a bearer token that expires      *)

GateBodies == { [title |-> "a"] }
GateQueries == { EmptyObj }
GatePatches == { [completed |-> TRUE] }
GateIds == { OID(1), MalformedId }

NextGate ==
  \/ \E hdr \in GateHeaders, body \in GateBodies : Create(hdr, body)
  \/ \E hdr \in GateHeaders, query \in GateQueries : List(hdr, query)
  \/ \E hdr \in GateHeaders, id \in GateIds : Get(hdr, id)
  \/ \E hdr \in GateHeaders, id \in GateIds, body \in GatePatches : Patch(hdr, id, body)
  \/ \E hdr \in GateHeaders, id \in GateIds : Remove(hdr, id)
  \/ \E hdr \in GateHeaders : Me(hdr)
  \/ Tick

SpecGate == InitTasks /\ [][NextGate]_vars

----------------------------------------------------------------------------
(* Listing while the same collection is written: the two reads of a list   *)
(* request interleave with creates and deletes                             *)

ReadOrders == {"items", "count"}

NextListRace ==
  \/ \E hdr \in Headers, body \in GateBodies : Create(hdr, body)
  \/ \E hdr \in Headers, id \in GateIds : Remove(hdr, id)
  \/ \E hdr \in Headers, query \in GateQueries, first \in ReadOrders :
       ListRead(hdr, query, first)
  \/ \E r \in inflight : ListRespond(r)

SpecListRace == InitTasks /\ [][NextListRace]_vars

----------------------------------------------------------------------------
(* Patches that name an owner or an id in their body *)

OwnerPatches ==
  { [user |-> "u2"],
    [user |-> "u1", title |-> "b"],
    [_id |-> 2, completed |-> TRUE],
    [priority |-> "high", user |-> "u2", _id |-> 1] }

NextOwner ==
  \/ \E hdr \in Headers, body \in GateBodies : Create(hdr, body)
  \/ \E hdr \in Headers, id \in IdParams, body \in OwnerPatches : Patch(hdr, id, body)

SpecOwner == InitTasks /\ [][NextOwner]_vars

----------------------------------------------------------------------------
(* The web client against the task API *)

WebLogins ==
  { [email |-> "a@x", password |-> "p1"],
    [email |-> "b@x", password |-> "p1"],
    [email |-> "a@x", password |-> "p2"] }

WebCreates == { [title |-> "a"] }

NextWeb ==
  \/ \E hdr \in Headers, body \in WebCreates : Create(hdr, body)
  \/ \E body \in WebLogins : WebLogin(body)
  \/ EnabledEffect
  \/ Focus
  \/ Retry
  \/ logout
  \/ \E i \in DOMAIN pending : ServeTasks(i)
  \/ \E i \in DOMAIN pending : RefreshSettle(i)
  \/ \E i \in DOMAIN pending : RefreshTimeout(i)

SpecWeb == InitTasks /\ [][NextWeb]_vars

----------------------------------------------------------------------------
(* The maintenance scripts run against a collection the API writes to *)

NextSeed ==
  \/ Seed
  \/ Clear
  \/ \E hdr \in Headers, body \in CreateBodies : Create(hdr, body)
  \/ \E hdr \in Headers, id \in IdParams : Remove(hdr, id)

SpecSeed == InitTasks /\ [][NextSeed]_vars

----------------------------------------------------------------------------
(* The user routes: profile and theme image upload *)

NextTheme ==
  \/ \E hdr \in Headers, up \in Uploads : SetTheme(hdr, up)
  \/ \E hdr \in Headers : Me(hdr)
  \/ Tick

SpecTheme == InitTasks /\ [][NextTheme]_vars

----------------------------------------------------------------------------
(* The credential and password-reset API on its own *)

InitAuth ==
  /\ InitWeb
  /\ tasks = <<>>
  /\ nextId = 1
  /\ creator = <<>>
  /\ users = EmptyObj
  /\ inflight = {}
  /\ nextToken = 1
  /\ issued = <<>>
  /\ latest = EmptyObj
  /\ consumed = <<>>
  /\ now = 0
  /\ resp = NoResponse

\* registration and the password-reset flow, in a development deployment
\* (where /auth/forgot hands the raw token to the client)
InitReset == InitAuth /\ nodeEnv = "development"

NextReset ==
  \/ \E body \in RegisterBodies : RegisterFind(body)
  \/ \E r \in inflight : RegisterCreate(r)
  \/ \E body \in ForgotBodies : ForgotFind(body)
  \/ \E r \in inflight : ForgotSave(r)
  \/ \E body \in ResetBodies : ResetFind(body)
  \/ \E r \in inflight : ResetSave(r)
  \/ Tick

SpecReset == InitReset /\ [][NextReset]_vars

\* the reset flow followed by logins, within the hour of the token
RoundForgots == { [email |-> "a@x"] }

NextRound ==
  \/ \E body \in RegisterBodies : RegisterFind(body)
  \/ \E r \in inflight : RegisterCreate(r)
  \/ \E body \in RoundForgots : ForgotFind(body)
  \/ \E r \in inflight : ForgotSave(r)
  \/ \E body \in ResetBodies : ResetFind(body)
  \/ \E r \in inflight : ResetSave(r)
  \/ \E body \in LoginBodies : Login(body)

SpecRound == InitReset /\ [][NextRound]_vars

----------------------------------------------------------------------------
(* Every route that answers with account data: the auth routes and the    *)
(* user routes of src/unnamed/part_004                                     *)

NextAccount ==
  \/ \E body \in RegisterBodies : RegisterFind(body)
  \/ \E r \in inflight : RegisterCreate(r)
  \/ \E body \in LoginBodies : Login(body)
  \/ \E body \in ForgotBodies : ForgotFind(body)
  \/ \E r \in inflight : ForgotSave(r)
  \/ \E body \in ResetBodies : ResetFind(body)
  \/ \E r \in inflight : ResetSave(r)
  \/ \E hdr \in Headers : Me(hdr)
  \/ \E hdr \in Headers, up \in Uploads : SetTheme(hdr, up)

SpecAccount == InitReset /\ [][NextAccount]_vars

----------------------------------------------------------------------------
(* A signed-in web client while the account's password is reset elsewhere, *)
(* up to and past the expiry of the client's bearer token                  *)

SessionLogins == { [email |-> "a@x", password |-> "p1"] }

\* the clock passes the lifetime of a bearer token
Elapse ==
  /\ now <= MaxTime
  /\ now' = now + JWT_EXPIRES
  /\ UNCHANGED <<taskVars, authVars, nodeEnv, webVars, resp>>

\* the reset requests of this scenario: the first token, a new password
SessionResets == { [token |-> 1, password |-> "p2"] }

NextSession ==
  \/ \E body \in SessionLogins : WebLogin(body)
  \/ Focus
  \/ \E i \in DOMAIN pending : ServeTasks(i)
  \/ \E i \in DOMAIN pending : RefreshSettle(i)
  \/ \E body \in RoundForgots : ForgotFind(body)
  \/ \E r \in inflight : ForgotSave(r)
  \/ \E body \in SessionResets : ResetFind(body)
  \/ \E r \in inflight : ResetSave(r)
  \/ Elapse

SpecSession == InitTasks /\ [][NextSession]_vars

\* registration on its own: requests for two emails, two of them for the
\* same email, whose store steps interleave
RaceBodies ==
  { [email |-> "a@x", password |-> "p1"],
    [email |-> "a@x", password |-> "p2", name |-> " n "],
    [email |-> "b@x", password |-> "p1"],
    [email |-> "b@x"] }

InitRegister == InitAuth /\ nodeEnv = "production"

NextRegister ==
  \/ \E body \in RaceBodies : RegisterFind(body)
  \/ \E r \in inflight : RegisterCreate(r)
  \/ \E body \in LoginBodies : Login(body)

SpecRegister == InitRegister /\ [][NextRegister]_vars

\* registration, login and reset requests, in either deployment mode
InitEnum == InitAuth /\ nodeEnv \in {"development", "production"}

NextEnum ==
  \/ \E body \in RegisterBodies : RegisterFind(body)
  \/ \E r \in inflight : RegisterCreate(r)
  \/ \E body \in LoginBodies : Login(body)
  \/ \E body \in ForgotBodies : ForgotFind(body)
  \/ \E r \in inflight : ForgotSave(r)
  \/ Tick

SpecEnum == InitEnum /\ [][NextEnum]_vars

----------------------------------------------------------------------------
(* Properties of the task API (SpecTasks) *)

Authenticated(hdr) == requireAuth(hdr, now)

\* caller `userId` created task `id` and it is still stored
Owns(userId, id) ==
  \E n \in DOMAIN tasks : id = OID(n) /\ creator[n] = userId

\* C1: owner isolation. Every stored task has as owner the caller whose
\* request created it, whatever that request's body named as `user`, and
\* every task a caller gets back from POST /tasks, GET /tasks or
\* GET /tasks/:id is one that caller created and owns.
C1_OwnerIsolation ==
  /\ \A n \in DOMAIN tasks : tasks[n].user = creator[n]
  /\ (resp.op = "create" /\ resp.status = 201) =>
       (resp.body.user = resp.caller /\ creator[resp.body._id] = resp.caller)
  /\ (resp.op = "list" /\ resp.status = 200) =>
       \A i \in 1..Len(resp.body.items) :
         /\ resp.body.items[i].user = resp.caller
         /\ creator[resp.body.items[i]._id] = resp.caller
  /\ (resp.op = "get" /\ resp.status = 200) =>
       (resp.body.user = resp.caller /\ creator[resp.body._id] = resp.caller)

\* u1 lists its tasks and gets the one it created from the body that named
\* u2 as `user`, while a task of u2 is stored
C1_Witness ==
  /\ resp.op = "list" /\ resp.status = 200 /\ resp.caller = "u1"
  /\ \E i \in 1..Len(resp.body.items) : resp.body.items[i].priority = "high"
  /\ \E n \in DOMAIN tasks : tasks[n].user = "u2"

\* C8: a DELETE /tasks/:id whose caller is not the owner of a stored task
\* `id` (another user's task, no such task, a malformed id, no valid bearer
\* token) leaves the Task collection as it was.
C8_DeleteFrame ==
  [][\A hdr \in Headers, id \in IdParams :
       (Remove(hdr, id) /\ ~(Authenticated(hdr) /\ Owns(CallerOf(hdr), id)))
         => tasks' = tasks]_vars

\* a DELETE by an authenticated caller was answered for a task that another
\* user owns, and the task is still stored
C8_Witness ==
  /\ resp.op = "remove" /\ resp.status = 204
  /\ \E n \in DOMAIN tasks : resp.id = OID(n) /\ tasks[n].user # resp.caller

\* C9 as stated: a DELETE /tasks/:id by an authenticated caller for an id
\* that is no task of the caller is answered 401 or 404.
C9_Original ==
  [][\A hdr \in Headers, id \in IdParams :
       (Remove(hdr, id) /\ Authenticated(hdr) /\ ~Owns(CallerOf(hdr), id))
         => resp'.status \in {401, 404}]_vars

\* C9 as amended: a DELETE /tasks/:id by an authenticated caller for an id
\* that is no task of the caller deletes nothing and is answered 204, like a
\* delete of an own task, when the id is a well-formed ObjectId, and 500 by
\* the error handler when it is not.
C9_DeleteNoOpStatus ==
  [][\A hdr \in Headers, id \in IdParams :
       (Remove(hdr, id) /\ Authenticated(hdr) /\ ~Owns(CallerOf(hdr), id))
         => /\ tasks' = tasks
            /\ resp'.status = (IF IsObjectId(id) THEN 204 ELSE 500)]_vars

\* a DELETE was answered 204 for an ObjectId no task ever had
C9_Witness ==
  /\ resp.op = "remove" /\ resp.status = 204
  /\ \E n \in 1..MaxTasks : resp.id = OID(n) /\ n >= nextId

\* C10: a successful PATCH /tasks/:id leaves every other task as it was and,
\* in the patched task, every field the body does not supply (owner and
\* createdAt included; updatedAt, which the store maintains, excepted).
C10_PatchFrame ==
  [][\A hdr \in Headers, id \in IdParams, body \in PatchBodies :
       (Patch(hdr, id, body) /\ resp'.status = 200) =>
         \E n \in DOMAIN tasks :
           /\ id = OID(n)
           /\ DOMAIN tasks' = DOMAIN tasks
           /\ \A m \in (DOMAIN tasks) \ {n} : tasks'[m] = tasks[m]
           /\ \A k \in ((DOMAIN tasks[n]) \cup (DOMAIN tasks'[n])) \
                       (((DOMAIN body) \cap TaskBodyKeys) \cup {"updatedAt"}) :
                /\ k \in DOMAIN tasks[n]
                /\ k \in DOMAIN tasks'[n]
                /\ tasks'[n][k] = tasks[n][k]]_vars

\* PATCH {completed: true} succeeded on a task with priority high and a due
\* date while a second task is stored
C10_Witness ==
  /\ resp.op = "patch" /\ resp.status = 200
  /\ resp.patch = [completed |-> TRUE]
  /\ resp.body.priority = "high" /\ Has(resp.body, "dueDate") /\ resp.body.completed
  /\ Cardinality(DOMAIN tasks) = 2

NotFound(r) == r.status = 404 /\ r.body = [error |-> "NotFound"]

\* C18 as stated: a GET /tasks/:id or a PATCH /tasks/:id (with a valid body)
\* by an authenticated caller, for an id that is no stored task of the
\* caller (no such task, another user's task, or an id that is not a
\* well-formed ObjectId), is answered 404 {error: NotFound} and leaves the
\* Task collection as it was.
C18_NotFound ==
  [][/\ \A hdr \in Headers, id \in IdParams :
          (Get(hdr, id) /\ Authenticated(hdr) /\ ~Owns(CallerOf(hdr), id))
            => (NotFound(resp') /\ tasks' = tasks)
     /\ \A hdr \in Headers, id \in IdParams, body \in PatchBodies :
          (/\ Patch(hdr, id, body) /\ Authenticated(hdr)
           /\ updateTaskSchemaOk(body) /\ ~Owns(CallerOf(hdr), id))
            => (NotFound(resp') /\ tasks' = tasks)]_vars

----------------------------------------------------------------------------
(* Properties of listing (SpecList) *)

\* what the query string of GET /tasks asks of one task: each filter that is
\* present must hold, completed=true asking for completed tasks and
\* completed=false for incomplete ones
Wanted(doc, q) ==
  /\ Has(q, "priority") => doc.priority = q.priority
  /\ Has(q, "completed") => doc.completed = (q.completed = "true")
  /\ Has(q, "dueBefore") => (Has(doc, "dueDate") /\ doc.dueDate <= ToDate(q.dueBefore))
  /\ Has(q, "dueAfter") => (Has(doc, "dueDate") /\ doc.dueDate >= ToDate(q.dueAfter))

\* the caller's stored tasks that the query string asks for
WantedOf(userId, q) ==
  { n \in DOMAIN tasks : creator[n] = userId /\ Wanted(tasks[n], q) }

\* a query-string parameter, or its documented default when absent
PageOf(q) == IF Has(q, "page") THEN ToNumber(q.page) ELSE 1
LimitOf(q) == IF Has(q, "limit") THEN ToNumber(q.limit) ELSE 20
SortOf(q) == IF Has(q, "sort") THEN q.sort ELSE "createdAt"
OrderOf(q) == IF Has(q, "order") THEN q.order ELSE "desc"

\* the number of tasks of M that come before task n in the requested order
Rank(n, M, field, order) ==
  Cardinality({ m \in M :
    IF order = "asc" THEN SortKey(tasks[m], field) < SortKey(tasks[n], field)
    ELSE SortKey(tasks[m], field) > SortKey(tasks[n], field) })

DistinctKeys(M, field) ==
  \A m, n \in M : m # n => SortKey(tasks[m], field) # SortKey(tasks[n], field)

\* the response body is the requested page of M
IsPageOf(body, M, q) ==
  LET skip == (PageOf(q) - 1) * LimitOf(q)
      left == Cardinality(M) - skip
  IN  /\ body.total = Cardinality(M)
      /\ body.page = PageOf(q)
      /\ body.limit = LimitOf(q)
      /\ Len(body.items) = (IF left < 0 THEN 0 ELSE Min(left, LimitOf(q)))
      /\ \A i \in 1..Len(body.items) :
           /\ body.items[i]._id \in M
           /\ Rank(body.items[i]._id, M, SortOf(q), OrderOf(q)) = skip + i - 1
           /\ body.items[i] = Json(body.items[i]._id)

\* C11 as stated: with no concurrent write, a GET /tasks with page >= 1 and
\* limit in 1..100 is answered 200 with the items at positions
\* (page-1)*limit .. (page-1)*limit+limit-1 of the caller's tasks that the
\* filters ask for, in the requested order (sort keys distinct), with total
\* the number of those tasks and page and limit as requested or defaulted.
C11_Pagination ==
  [][\A hdr \in Headers, query \in PageQueries :
       (/\ List(hdr, query) /\ Authenticated(hdr)
        /\ PageOf(query) >= 1 /\ LimitOf(query) \in 1..100
        /\ DistinctKeys(WantedOf(CallerOf(hdr), query), SortOf(query)))
         => /\ resp'.status = 200
            /\ IsPageOf(resp'.body, WantedOf(CallerOf(hdr), query), query)]_vars

\* C12 as stated: every item of a GET /tasks response satisfies every filter
\* of the query string, and with completed=false (completed=true) the items
\* are exactly the caller's incomplete (completed) tasks that satisfy the
\* other filters.
C12_ConjunctiveFilter ==
  [][\A hdr \in Headers, query \in PageQueries :
       (List(hdr, query) /\ resp'.status = 200) =>
         /\ \A i \in 1..Len(resp'.body.items) : Wanted(resp'.body.items[i], query)
         /\ Has(query, "completed") =>
              { resp'.body.items[i]._id : i \in 1..Len(resp'.body.items) }
                = WantedOf(CallerOf(hdr), query)]_vars

----------------------------------------------------------------------------
(* Properties of validation (SpecValidate) *)

\* a POST /tasks body the API refuses: title missing or empty, priority not
\* one of low, medium, high, dueDate not an ISO date-time
BadCreate(b) ==
  \/ ~Has(b, "title")
  \/ b.title = ""
  \/ Has(b, "priority") /\ b.priority \notin {"low", "medium", "high"}
  \/ Has(b, "dueDate") /\ b.dueDate \notin IsoDates

\* a GET /tasks query the API refuses
BadQuery(q) ==
  \/ Has(q, "page") /\ ~(ToNumber(q.page) >= 1)
  \/ Has(q, "limit") /\ ~(ToNumber(q.limit) \in 1..100)
  \/ Has(q, "sort") /\ q.sort \notin {"createdAt", "dueDate", "priority"}
  \/ Has(q, "order") /\ q.order \notin {"asc", "desc"}
  \/ Has(q, "priority") /\ q.priority \notin {"low", "medium", "high"}

\* a PATCH /tasks/:id body with an invalid field value
BadPatch(b) ==
  \/ Has(b, "title") /\ b.title = ""
  \/ Has(b, "priority") /\ b.priority \notin {"low", "medium", "high"}
  \/ Has(b, "dueDate") /\ b.dueDate \notin IsoDates

Refused(r) == r.status = 400 /\ r.body = [error |-> "ValidationError"]

\* C19: a request to a task route that has passed the authentication gate
\* and fails its schema (POST /tasks with a missing or empty title or a
\* priority outside low, medium, high; GET /tasks with page < 1, limit
\* outside 1..100 or sort or order outside their enums; PATCH with an
\* invalid field value, whatever its id) is answered 400 ValidationError and
\* neither stores, changes nor removes a task.
C19_ValidationFirst ==
  [][\/ Refused(resp') /\ UNCHANGED taskVars
     \/ /\ \A hdr \in Headers, body \in ValidateBodies :
            ~(/\ resp'.op = "create" /\ Authenticated(hdr) /\ BadCreate(body)
              /\ Create(hdr, body))
        /\ \A hdr \in Headers, query \in ValidateQueries :
            ~(/\ resp'.op = "list" /\ Authenticated(hdr) /\ BadQuery(query)
              /\ List(hdr, query))
        /\ \A hdr \in Headers, id \in IdParams, body \in ValidatePatches :
            ~(/\ resp'.op = "patch" /\ Authenticated(hdr) /\ BadPatch(body)
              /\ Patch(hdr, id, body))]_vars

\* a PATCH was refused as invalid while a task of its caller is stored, and
\* no stored task has been modified
C19_Witness ==
  /\ resp.op = "patch" /\ Refused(resp)
  /\ \E n \in DOMAIN tasks : tasks[n].user = resp.caller
  /\ \A n \in DOMAIN tasks : ~tasks[n].completed /\ tasks[n].priority = "medium"

----------------------------------------------------------------------------
(* Properties of the authentication gate (SpecGate) *)

\* the header is 'Bearer <token>' with a token signed with the server's
\* secret whose expiry lies ahead
GoodBearer(hdr) ==
  /\ hdr.scheme = "Bearer"
  /\ hdr.token.sig = "JWT_SECRET"
  /\ now < hdr.token.exp

\* some request of a task or user route carrying this header is served
Served(hdr) ==
  \/ resp'.op = "create" /\ \E body \in GateBodies : Create(hdr, body)
  \/ resp'.op = "list" /\ \E query \in GateQueries : List(hdr, query)
  \/ resp'.op = "get" /\ \E id \in GateIds : Get(hdr, id)
  \/ resp'.op = "patch" /\ \E id \in GateIds, body \in GatePatches : Patch(hdr, id, body)
  \/ resp'.op = "remove" /\ \E id \in GateIds : Remove(hdr, id)
  \/ resp'.op = "me" /\ Me(hdr)

----------------------------------------------------------------------------
(* Properties of registration (SpecRegister) *)

EmailAlreadyExists(r) ==
  /\ r.status = 409
  /\ r.body = [error |-> "Error", message |-> "EmailAlreadyExists"]

\* the response is 201 with the public view of user u and a token for u
Registered(r, u) ==
  /\ r.status = 201
  /\ r.body.user.id = u
  /\ r.body.token.sub = u
  /\ r.body.token.sig = "JWT_SECRET"

\* C14 as stated: a register call that finds a user with its email fails with
\* EmailAlreadyExists (409) and leaves the User collection as it was; a call
\* that finds none creates exactly one user, with its email and the hash of
\* its password, and returns 201 with a token whose subject is the new id.
C14_Register ==
  [][/\ \A body \in RaceBodies :
          (RegisterFind(body) /\ Has(body, "password") /\ FindByEmail(body.email) # {})
            => /\ EmailAlreadyExists(resp')
               /\ users' = users
               /\ inflight' = inflight
     /\ \A body \in RaceBodies :
          (RegisterFind(body) /\ Has(body, "password") /\ FindByEmail(body.email) = {})
            => inflight' # inflight
     /\ \A r \in inflight :
          RegisterCreate(r) =>
            \E u \in DOMAIN users' :
              /\ u \notin DOMAIN users
              /\ DOMAIN users' = (DOMAIN users) \cup {u}
              /\ \A v \in DOMAIN users : users'[v] = users[v]
              /\ users'[u].email = r.body.email
              /\ users'[u].passwordHash = Bcrypt(r.body.password)
              /\ Registered(resp', u)]_vars

\* C15 as stated: however the existence checks and inserts of concurrent
\* register requests interleave, no two users have the same email, and a
\* request whose insert meets a user with its email fails with
\* EmailAlreadyExists (409) while the others succeed with 201.
C15_UniqueEmail ==
  /\ \A u, v \in DOMAIN users : users[u].email = users[v].email => u = v
  /\ (resp.op = "register" /\ Has(resp.req, "email") /\ resp.status # 400) =>
       \/ EmailAlreadyExists(resp)
       \/ \E u \in DOMAIN users : users[u].email = resp.req.email /\ Registered(resp, u)

----------------------------------------------------------------------------
(* Properties of listing under concurrent writes (SpecListRace) *)

\* the tasks of a caller that are stored now
OwnedNow(userId) == { n \in DOMAIN tasks : creator[n] = userId }

\* C23: the item query and the count query of one list request read the
\* collection at two moments. The query served second sees the collection
\* as it is when the response is built and the query served first as it was
\* at the first read: total is the caller's number of tasks at the moment
\* of the count read and items the caller's tasks at the moment of the item
\* read, so that a create or delete by the caller between the two reads
\* makes total differ from the number of tasks in the state the items were
\* read from (the witness).
C23_ListNotIsolated ==
  [][\A r \in inflight :
       ListRespond(r) =>
         IF r.first = "items" THEN
           /\ resp'.body.total = Cardinality(OwnedNow(r.caller))
           /\ Len(resp'.body.items) = resp'.matchedAtItems
           /\ resp'.body.items = r.read.items
         ELSE
           /\ resp'.body.total = r.read.total
           /\ Len(resp'.body.items) = Cardinality(OwnedNow(r.caller))
           /\ resp'.matchedAtItems = Cardinality(OwnedNow(r.caller))]_vars

\* a list response whose total is not the number of matching tasks in the
\* state its items were read from
C23_Witness ==
  /\ resp.op = "list" /\ resp.status = 200
  /\ Has(resp, "matchedAtItems")
  /\ resp.body.total # resp.matchedAtItems
  /\ Len(resp.body.items) = resp.matchedAtItems

----------------------------------------------------------------------------
(* Properties of ownership under PATCH (SpecOwner) *)

\* C24: task ownership is immutable. After any sequence of PATCH requests
\* by any caller, with bodies that carry a `user` or an `_id` field among
\* them, every stored task has as owner the caller that created it, and no
\* patch has written an `_id` into a stored task.
C24_OwnerImmutable ==
  \A n \in DOMAIN tasks :
    /\ tasks[n].user = creator[n]
    /\ ~Has(tasks[n], "_id")
    /\ (resp.op = "patch" /\ resp.status = 200 /\ resp.id = OID(n)) =>
         (resp.body.user = creator[n] /\ resp.body._id = n)

\* a PATCH whose body named another user as `user` succeeded, and the
\* patched task still belongs to its creator
C24_Witness ==
  /\ resp.op = "patch" /\ resp.status = 200
  /\ Has(resp.patch, "user") /\ resp.patch.user # resp.caller
  /\ Has(resp.patch, "_id")
  /\ resp.body.user = resp.caller /\ resp.body.priority = "high"

----------------------------------------------------------------------------
(* Properties of the seed script (SpecSeed) *)

\* C22 as stated: a run of the seed script against an empty Task collection
\* leaves exactly 3 tasks stored, and a run against a non-empty collection
\* leaves the collection as it was (so a second run in a row changes
\* nothing).
C22_SeedIdempotent ==
  [][Seed =>
       IF DOMAIN tasks = {} THEN Cardinality(DOMAIN tasks') = 3
       ELSE tasks' = tasks]_vars

----------------------------------------------------------------------------
(* Properties of the theme upload (SpecTheme) *)

\* C21 as stated: a POST /user/theme by an authenticated caller with no
\* image file, or with a file larger than 5 MB, is answered 400 and leaves
\* every user record, the caller's themeBackgroundUrl included, as it was.
C21_ThemeRejected ==
  [][\A hdr \in Headers, up \in Uploads :
       (/\ Authenticated(hdr)
        /\ (~up.present \/ up.size > 5 * 1024 * 1024)
        /\ SetTheme(hdr, up))
         => (resp'.status = 400 /\ users' = users)]_vars

----------------------------------------------------------------------------
(* Properties of the password-reset flow (SpecReset) *)

Complete(body) == Has(body, "token") /\ Has(body, "password")

InvalidOrExpired(r) ==
  /\ r.status = 400
  /\ r.body = [error |-> "Error", message |-> "InvalidOrExpiredResetToken"]

\* a resetPassword call has completed with this raw token
Consumed(t) == t \in DOMAIN consumed

\* some user's stored reset hash is the hash of raw token t
Stored(t) ==
  { u \in DOMAIN users :
      Has(users[u], "passwordResetTokenHash") /\ users[u].passwordResetTokenHash = Sha256(t) }

\* C2: a reset token is single-use in sequence. A resetPassword call that
\* presents a stored, unexpired token is accepted, and its save answers 200
\* and replaces passwordHash; every resetPassword call that starts after a
\* call with the same raw token has completed fails with
\* InvalidOrExpiredResetToken and writes nothing.
C2_SingleUse ==
  [][/\ \A body \in ResetBodies :
          (/\ ResetFind(body) /\ Complete(body)
           /\ \E u \in Stored(body.token) : users[u].passwordResetExpires > now)
            => inflight' # inflight
     /\ \A r \in inflight :
          ResetSave(r) =>
            /\ resp'.status = 200
            /\ users'[r.user].passwordHash = Bcrypt(r.body.password)
     /\ \A body \in ResetBodies :
          (ResetFind(body) /\ Complete(body) /\ Consumed(body.token)) =>
            /\ InvalidOrExpired(resp')
            /\ users' = users
            /\ inflight' = inflight]_vars

\* a reset with an already consumed token was refused although that token
\* is the user's most recent one and its hour has not passed
C2_Witness ==
  /\ resp.op = "reset" /\ InvalidOrExpired(resp)
  /\ Has(resp.req, "token") /\ Consumed(resp.req.token)
  /\ latest[issued[resp.req.token].user] = resp.req.token
  /\ now < issued[resp.req.token].expires

\* C17: the raw reset token is never persisted. In every reachable state a
\* user's passwordResetTokenHash is absent or is the SHA-256 digest of a raw
\* token that a requestPasswordReset call generated for that user, and a
\* resetPassword call is accepted only for a user whose stored hash is the
\* digest of the token the call presents.
C17_RawTokenNotStored ==
  /\ [](\A u \in DOMAIN users :
          Has(users[u], "passwordResetTokenHash") =>
            \E t \in DOMAIN issued :
              /\ issued[t].user = u
              /\ users[u].passwordResetTokenHash = [sha256 |-> t])
  /\ [][\A body \in ResetBodies :
          (inflight' # inflight /\ nextToken' = nextToken /\ ResetFind(body)) =>
            \E r \in inflight' \ inflight :
              /\ Has(users[r.user], "passwordResetTokenHash")
              /\ users[r.user].passwordResetTokenHash = [sha256 |-> body.token]]_vars

\* a reset request has answered with raw token t while the user's stored
\* hash is the digest of t
C17_Witness ==
  /\ resp.op = "forgot" /\ Has(resp.body, "token")
  /\ \E u \in DOMAIN users :
       /\ Has(users[u], "passwordResetTokenHash")
       /\ users[u].passwordResetTokenHash = [sha256 |-> resp.body.token]

\* C26 as stated: no reset request is lost. As long as raw token t is the
\* last one requestPasswordReset saved and returned for its user, no
\* resetPassword call presenting t has begun, and t's expiry lies ahead, t is
\* valid (a resetPassword call presenting t would find the user), also when
\* a resetPassword call with an earlier token of that user did its lookup
\* before and its save after the save that stored t.
C26_NoLostReset ==
  \A t \in DOMAIN issued :
    (/\ latest[issued[t].user] = t
     /\ ~Consumed(t)
     /\ \A r \in inflight : r.op = "reset" => r.body.token # t
     /\ now < issued[t].expires)
      => ResetLookup(t, now) # {}

\* C25: the reset fields are paired. In every reachable state every user
\* record has either both passwordResetTokenHash and passwordResetExpires or
\* neither, however the store steps of register, requestPasswordReset and
\* resetPassword calls interleave.
C25_ResetFieldsPaired ==
  \A u \in DOMAIN users :
    Has(users[u], "passwordResetTokenHash") <=> Has(users[u], "passwordResetExpires")

\* a user has both reset fields again after a completed reset had cleared
\* them, while another call is between its lookup and its save
C25_Witness ==
  /\ \E u \in DOMAIN users :
       /\ ResetKeys \subseteq DOMAIN users[u]
       /\ \E t \in DOMAIN consumed : issued[t].user = u
  /\ inflight # {}

\* C3 as stated: no raw token completes more than one resetPassword call,
\* whatever the interleaving of the calls' lookups and saves.
C3_ConsumedOnce == \A t \in DOMAIN consumed : consumed[t] <= 1

\* C4: a resetPassword call made at or after the stored expiry of the token
\* it presents fails with InvalidOrExpiredResetToken and leaves the User
\* collection (passwordHash, name, reset fields) as it was.
C4_ExpiredFails ==
  [][\A body \in ResetBodies :
       (/\ ResetFind(body) /\ Complete(body)
        /\ \E u \in Stored(body.token) : users[u].passwordResetExpires <= now)
         => /\ InvalidOrExpired(resp')
            /\ users' = users
            /\ inflight' = inflight]_vars

\* a reset was refused for a token whose hash is still stored: only its
\* expiry can have refused it
C4_Witness ==
  /\ resp.op = "reset" /\ InvalidOrExpired(resp)
  /\ Has(resp.req, "token")
  /\ \E u \in Stored(resp.req.token) :
       /\ users[u].passwordResetExpires = issued[resp.req.token].expires
       /\ users[u].passwordResetExpires <= now

\* C5 as stated: once a later requestPasswordReset has saved its token, a
\* resetPassword call that starts with an earlier token of that user fails,
\* and one that starts with the most recent token, not yet consumed, before
\* its expiry is accepted.
C5_MostRecentOnly ==
  [][\A body \in ResetBodies :
       (ResetFind(body) /\ Complete(body) /\ body.token \in DOMAIN issued) =>
         LET t == body.token
             u == issued[t].user
         IN  /\ latest[u] # t => (InvalidOrExpired(resp') /\ inflight' = inflight)
             /\ (latest[u] = t /\ ~Consumed(t) /\ now < issued[t].expires)
                  => inflight' # inflight]_vars

----------------------------------------------------------------------------
(* Properties of reset followed by login (SpecRound) *)

Passwords == {"p1", "p2"}

\* C16: in the state a successful resetPassword(rawToken, newPassword) of
\* user U leaves, login(U.email, newPassword) succeeds for U, login with any
\* other password, the old one included, fails with InvalidCredentials, and
\* U has neither passwordResetTokenHash nor passwordResetExpires; a login
\* request served in such a state with the new password is answered 200
\* with U's id.
C16_ResetRoundTrip ==
  [][/\ \A r \in inflight :
          ResetSave(r) =>
            LET email == users[r.user].email IN
            /\ resp'.status = 200
            /\ (login([email |-> email, password |-> r.body.password]))' = EmptyObj
            /\ (FindByEmail(email))' = {r.user}
            /\ \A pw \in Passwords \ {r.body.password} :
                 (login([email |-> email, password |-> pw]))'
                   = HttpError("InvalidCredentials", 401)
            /\ (DOMAIN users'[r.user]) \cap ResetKeys = {}
     /\ \A body \in LoginBodies :
          (/\ Login(body) /\ Has(body, "password")
           /\ \E u \in DOMAIN users :
                /\ users[u].email = body.email
                /\ \E t \in DOMAIN consumed : issued[t].user = u)
            => IF body.password = "p2"
               THEN resp'.status = 200 /\ resp'.body.user.id = issued[CHOOSE t \in DOMAIN consumed : TRUE].user
               ELSE resp'.status = 401]_vars

\* after a completed reset, a login with the old password was refused
C16_Witness ==
  /\ resp.op = "login" /\ resp.status = 401
  /\ resp.req.email = "a@x"
  /\ \E t \in DOMAIN consumed : issued[t].user \in DOMAIN users
  /\ \A u \in DOMAIN users : users[u].passwordHash = Bcrypt("p2") /\ ~Has(users[u], "passwordResetTokenHash")

----------------------------------------------------------------------------
(* Properties of the web client (SpecWeb) *)

\* the list TaskList renders shows tasks of user u only
ShowsOnly(list, u) == \A k \in DOMAIN list : list[k].user = u

\* C29 as stated: cross-user isolation in the web client. In the state a
\* login leaves, the first state between that login and the completion of
\* its first refresh, the task list rendered with the new token holds no
\* task that was loaded for another user.
C29_CrossUserIsolation ==
  [][\A body \in WebLogins :
       (WebLogin(body) /\ webToken' # NoToken) => ShowsOnly(webTasks', webToken'.jwt.sub)]_vars

\* C30 as stated: the loading flag. loading is true whenever at least one
\* refresh request is in flight, whichever of the login callback, the
\* enabled effect, the focus listener and the Retry button started it.
C30_LoadingWhileInFlight == Len(pending) > 0 => loading


\* the credential fields of a User document
SecretKeys == {"passwordHash", "passwordResetTokenHash", "passwordResetExpires"}

UserViewKeys == {"id", "email", "name"}

\* C28: credential secrecy in responses. No response of register, login,
\* forgot, reset, GET /user/me or POST /user/theme has a passwordHash,
\* passwordResetTokenHash or passwordResetExpires field, at its top level, in
\* its user view or in the payload of its bearer token; the user view has
\* only id, email and name, and the body of GET /user/me only those and
\* themeBackgroundUrl.
C28_CredentialSecrecy ==
  (resp.op \in {"register", "login", "forgot", "reset", "me", "theme"} /\ Has(resp, "body")) =>
    /\ (DOMAIN resp.body) \cap SecretKeys = {}
    /\ Has(resp.body, "user") => (DOMAIN resp.body.user) \subseteq UserViewKeys
    /\ (resp.op # "forgot" /\ Has(resp.body, "token")) =>
          (DOMAIN resp.body.token) \cap SecretKeys = {}
    /\ (resp.op = "me" /\ resp.status = 200) =>
          (DOMAIN resp.body) \subseteq (UserViewKeys \cup {"themeBackgroundUrl"})

\* a login answered with the user view and a token while the account's
\* document held all three credential fields
C28_Witness ==
  /\ resp.op = "login" /\ resp.status = 200
  /\ Has(resp.body, "user")
  /\ SecretKeys \subseteq DOMAIN users[resp.body.user.id]


\* a resetPassword call for user u has completed
ResetDone(u) == \E tok \in DOMAIN consumed : issued[tok].user = u

\* C27: a password reset does not revoke bearer tokens. A request carrying a
\* token that login issued to a user before a completed password reset of
\* that user is served as that user exactly as long as the token's own
\* expiry lies ahead, and is answered 401 from the expiry on.
C27_NotRevoked ==
  [][\A i \in DOMAIN pending :
       (ServeTasks(i) /\ ResetDone(pending[i].authorization.token.sub))
         => LET jwt == pending[i].authorization.token
            IN  IF now < jwt.exp
                THEN resp'.status = 200 /\ resp'.caller = jwt.sub
                ELSE resp'.status = 401]_vars

\* the tasks of a@x were served to the token of its session after the
\* password of a@x had been reset
C27_Witness ==
  /\ resp.op = "list" /\ resp.status = 200 /\ resp.caller = "u1"
  /\ ResetDone("u1")
  /\ users["u1"].passwordHash = Bcrypt("p2")
  /\ authorization = setAuthToken(signToken("u1", "a@x", NoName, JWT_EXPIRES))

----------------------------------------------------------------------------
(* Properties of login and of the reset request (SpecEnum) *)

\* C6 as stated: the response of POST /auth/forgot is the same whether or
\* not a user with the email exists, in every deployment mode; without a
\* user it is 200 {ok: true}.
C6_Original ==
  (resp.op = "forgot" /\ Has(resp.req, "email")) =>
    (resp.status = 200 /\ resp.body = [ok |-> TRUE])

\* C6 as amended: in a production deployment the response of POST
\* /auth/forgot is 200 {ok: true} whether or not a user with the email
\* exists; outside production it is 200 and carries the raw token exactly
\* when the user exists.
C6_ForgotResponse ==
  (resp.op = "forgot" /\ Has(resp.req, "email")) =>
    /\ resp.status = 200
    /\ nodeEnv = "production" => resp.body = [ok |-> TRUE]
    /\ nodeEnv # "production" =>
         /\ Has(resp.body, "token") <=> resp.found
         /\ ~resp.found => resp.body = [ok |-> TRUE]

\* in production a reset request for an existing user was answered {ok: true}
C6_Witness ==
  /\ nodeEnv = "production"
  /\ resp.op = "forgot" /\ resp.status = 200 /\ resp.found
  /\ resp.body = [ok |-> TRUE]

\* the credentials of a login body match no stored user
LoginFails(body) ==
  \A u \in DOMAIN users :
    users[u].email = body.email => users[u].passwordHash # Bcrypt(body.password)

\* C7: a login whose email has no user and a login whose password does not
\* match get the same response, 401 {error: Error, message:
\* InvalidCredentials}, and no login changes the User collection.
C7_LoginResponse ==
  [][\A body \in LoginBodies :
       Login(body) =>
         /\ users' = users
         /\ (Has(body, "email") /\ Has(body, "password") /\ LoginFails(body)) =>
              /\ resp'.status = 401
              /\ resp'.body = [error |-> "Error", message |-> "InvalidCredentials"]]_vars

\* a login with a wrong password for an existing user was refused
C7_Witness ==
  /\ resp.op = "login" /\ resp.status = 401
  /\ resp.found
  /\ \E u \in DOMAIN users : users[u].email = resp.req.email

----------------------------------------------------------------------------
(* Properties of the error translation (SpecRegister) *)

\* C20 as stated: an error a handler raises without a status (here the
\* store's duplicate-key error of User.create) is answered 500 with a body
\* that holds neither the error's message nor its name, and an error raised
\* with a status (EmailAlreadyExists 409, InvalidCredentials 401) is
\* answered with exactly that status.
C20_ErrorTranslation ==
  [][/\ \A r \in inflight :
          (RegisterCreate(r) /\ FindByEmail(r.body.email) # {}) =>
            /\ resp'.status = 500
            /\ resp'.body.message # DuplicateKey.message
            /\ resp'.body.error # DuplicateKey.name
     /\ \A body \in RaceBodies :
          (RegisterFind(body) /\ Has(body, "password") /\ FindByEmail(body.email) # {})
            => resp'.status = 409
     /\ \A body \in LoginBodies :
          (Login(body) /\ Has(body, "password") /\ LoginFails(body))
            => resp'.status = 401]_vars

====
